---- MODULE Spec2Model ----
(***************************************************************************)
(* State-machine model of run_app.py of NexGen-GreenRoute-Tracker: the    *)
(* column normaliser, the key resolvers, the currency coercion, the four  *)
(* link joins, the derived metrics, the st.cache_data memoisation of      *)
(* load_and_merge_data and the dashboard script that consumes its result. *)
(*                                                                         *)
(* Text (column labels, string cells) is a sequence of one-character      *)
(* strings, so that strip/lower/replace and the substring tests of the    *)
(* code are computed and not assumed.  Numbers are exact rationals with   *)
(* the float specials NaN and +/-inf.  A DataFrame is a record            *)
(* [cols, rows]: cols the sequence of column labels (labels may repeat,   *)
(* as in pandas), rows a sequence of cell sequences aligned with cols.    *)
(***************************************************************************)
EXTENDS Integers, Sequences, FiniteSets, TLC

\* ------------------------------------------------------------------ text
\* String literals of the code.
N_id == <<"i", "d">>
N_order_id == <<"o", "r", "d", "e", "r", "_", "i", "d">>
N_orderid == <<"o", "r", "d", "e", "r", "i", "d">>
N_order_id_ == <<"o", "r", "d", "e", "r", "_", "i", "d", "_">>
N_flmc == <<"f", "u", "e", "l", "_", "l", "a", "b", "o", "r", "_", "m", "a", "i", "n", "t", "e", "n", "a", "n", "c", "e", "_", "c", "o", "s", "t", "s">>
N_flmc_inr == <<"f", "u", "e", "l", "_", "l", "a", "b", "o", "r", "_", "m", "a", "i", "n", "t", "e", "n", "a", "n", "c", "e", "_", "c", "o", "s", "t", "s", "_", "i", "n", "r">>
N_route == <<"r", "o", "u", "t", "e">>
N_route_id == <<"r", "o", "u", "t", "e", "_", "i", "d">>
N_order_value_cleaned == <<"o", "r", "d", "e", "r", "_", "v", "a", "l", "u", "e", "_", "c", "l", "e", "a", "n", "e", "d">>
N_order_value_usd == <<"o", "r", "d", "e", "r", "_", "v", "a", "l", "u", "e", "_", "u", "s", "d">>
N_distance_km == <<"d", "i", "s", "t", "a", "n", "c", "e", "_", "k", "m">>
N_distance_km_route == <<"d", "i", "s", "t", "a", "n", "c", "e", "_", "k", "m", "_", "r", "o", "u", "t", "e">>
N_assigned_vehicle_type == <<"a", "s", "s", "i", "g", "n", "e", "d", "_", "v", "e", "h", "i", "c", "l", "e", "_", "t", "y", "p", "e">>
N_vehicle_type == <<"v", "e", "h", "i", "c", "l", "e", "_", "t", "y", "p", "e">>
N_co2 == <<"c", "o", "2", "_", "e", "m", "i", "s", "s", "i", "o", "n", "s", "_", "k", "g", "_", "p", "e", "r", "_", "k", "m">>
N_total_co2_kg == <<"t", "o", "t", "a", "l", "_", "c", "o", "2", "_", "k", "g">>
N_ccpv == <<"c", "a", "r", "b", "o", "n", "_", "c", "o", "s", "t", "_", "p", "e", "r", "_", "v", "a", "l", "u", "e">>
N_age_years == <<"a", "g", "e", "_", "y", "e", "a", "r", "s">>
N_priority == <<"p", "r", "i", "o", "r", "i", "t", "y">>
N_delivery_cost_inr == <<"d", "e", "l", "i", "v", "e", "r", "y", "_", "c", "o", "s", "t", "_", "i", "n", "r">>
N_origin == <<"o", "r", "i", "g", "i", "n">>
N_origins == <<"o", "r", "i", "g", "i", "n", "s">>
N_order_dat == <<"o", "r", "d", "e", "r", "_", "d", "a", "t">>
N_order_date == <<"o", "r", "d", "e", "r", "_", "d", "a", "t", "e">>

\* The suffixes pd.merge gives to overlapping labels.
Suffix ==
  [ x |-> <<"_", "x">>,
    y |-> <<"_", "y">>,
    order |-> <<"_", "o", "r", "d", "e", "r">>,
    route |-> <<"_", "r", "o", "u", "t", "e">>,
    merge |-> <<"_", "m", "e", "r", "g", "e">>,
    fleet |-> <<"_", "f", "l", "e", "e", "t">>,
    final |-> <<"_", "f", "i", "n", "a", "l">>,
    cost |-> <<"_", "c", "o", "s", "t">> ]

\* The substrings the code looks for in labels and cells.
Word ==
  [ labor |-> <<"l", "a", "b", "o", "r">>,
    fuel |-> <<"f", "u", "e", "l">>,
    order_value |-> <<"o", "r", "d", "e", "r", "_", "v", "a", "l", "u", "e">>,
    inr |-> <<"i", "n", "r">>,
    nan |-> <<"n", "a", "n">> ]

\* The display names of rename_map.
Display ==
  [ ID |-> <<"I", "D">>,
    Route_ID |-> <<"R", "o", "u", "t", "e", "_", "I", "D">>,
    Vehicle_Type |-> <<"V", "e", "h", "i", "c", "l", "e", "_", "T", "y", "p", "e">>,
    Priority_Levels |-> <<"P", "r", "i", "o", "r", "i", "t", "y", "_", "L", "e", "v", "e", "l", "s">>,
    Delivery_Cost_INR |-> <<"D", "e", "l", "i", "v", "e", "r", "y", "_", "C", "o", "s", "t", "_", "I", "N", "R">>,
    Total_CO2_kg |-> <<"T", "o", "t", "a", "l", "_", "C", "O", "2", "_", "k", "g">>,
    CCPV |-> <<"C", "a", "r", "b", "o", "n", "_", "C", "o", "s", "t", "_", "P", "e", "r", "_", "V", "a", "l", "u", "e">>,
    Distance_km |-> <<"D", "i", "s", "t", "a", "n", "c", "e", "_", "k", "m">>,
    Vehicle_Age |-> <<"V", "e", "h", "i", "c", "l", "e", "_", "A", "g", "e">>,
    FLMC_INR |-> <<"F", "u", "e", "l", "_", "L", "a", "b", "o", "r", "_", "M", "a", "i", "n", "t", "e", "n", "a", "n", "c", "e", "_", "C", "o", "s", "t", "s", "_", "I", "N", "R">>,
    Origins |-> <<"O", "r", "i", "g", "i", "n", "s">>,
    Order_Date |-> <<"O", "r", "d", "e", "r", "_", "D", "a", "t", "e">> ]

\* Raw headers of the input files.
Header ==
  [ Order_ID |-> <<"O", "r", "d", "e", "r", " ", "I", "D">>,
    Order_Value_INR |-> <<"O", "r", "d", "e", "r", "_", "V", "a", "l", "u", "e", "_", "I", "N", "R">>,
    order_value |-> <<"o", "r", "d", "e", "r", "_", "v", "a", "l", "u", "e">>,
    Route |-> <<" ", "R", "o", "u", "t", "e", " ">>,
    Fuel_Cost |-> <<"F", "u", "e", "l", " ", "C", "o", "s", "t">>,
    Labor_Cost |-> <<"L", "a", "b", "o", "r", " ", "C", "o", "s", "t">>,
    customer |-> <<"c", "u", "s", "t", "o", "m", "e", "r">>,
    status |-> <<"D", "e", "l", "i", "v", "e", "r", "y", " ", "S", "t", "a", "t", "u", "s">>,
    toll |-> <<"t", "o", "l", "l", "_", "c", "h", "a", "r", "g", "e", "s">> ]

\* Cell texts of the input files, and the 'All' option of the filters.
Text ==
  [ R1 |-> <<"R", "1">>,
    R2 |-> <<"R", "2">>,
    R9 |-> <<"R", "9">>,
    Truck |-> <<"T", "r", "u", "c", "k">>,
    Van |-> <<"V", "a", "n">>,
    All |-> <<"A", "l", "l">>,
    usd100 |-> <<"$", "1", "0", "0", ".", "0", "0">>,
    usd1250 |-> <<"$", "1", ",", "2", "5", "0">>,
    zero |-> <<"0">>,
    abc |-> <<"a", "b", "c">> ]


UpperChars == <<"A","B","C","D","E","F","G","H","I","J","K","L","M",
                "N","O","P","Q","R","S","T","U","V","W","X","Y","Z">>
LowerChars == <<"a","b","c","d","e","f","g","h","i","j","k","l","m",
                "n","o","p","q","r","s","t","u","v","w","x","y","z">>
DigitChars == <<"0","1","2","3","4","5","6","7","8","9">>

Range(s) == {s[i] : i \in DOMAIN s}

\* str.lower() on one character.
LowerChar(c) ==
  IF \E i \in DOMAIN UpperChars : UpperChars[i] = c
  THEN LowerChars[CHOOSE i \in DOMAIN UpperChars : UpperChars[i] = c]
  ELSE c

\* str.strip(chars): drop the leading and trailing characters that are in chars.
RECURSIVE LStrip(_, _)
LStrip(s, chars) ==
  IF s # <<>> /\ Head(s) \in chars THEN LStrip(Tail(s), chars) ELSE s

RECURSIVE RStrip(_, _)
RStrip(s, chars) ==
  IF s # <<>> /\ s[Len(s)] \in chars THEN RStrip(SubSeq(s, 1, Len(s) - 1), chars) ELSE s

Strip(s, chars) == RStrip(LStrip(s, chars), chars)

Whitespace == {" ", "\t"}

\* The characters the pattern [^a-z0-9_]+ leaves alone.
WordChars == Range(LowerChars) \cup Range(DigitChars) \cup {"_"}

\* str.replace('[^a-z0-9_]+', '_', regex=True): each maximal run of other
\* characters becomes one underscore.
RECURSIVE ReplaceRuns(_, _)
ReplaceRuns(s, inRun) ==
  IF s = <<>> THEN <<>>
  ELSE IF Head(s) \in WordChars THEN <<Head(s)>> \o ReplaceRuns(Tail(s), FALSE)
  ELSE IF inRun THEN ReplaceRuns(Tail(s), TRUE)
  ELSE <<"_">> \o ReplaceRuns(Tail(s), TRUE)

\* str.replace(ch, '', regex=False)
RECURSIVE RemoveChar(_, _)
RemoveChar(s, ch) ==
  IF s = <<>> THEN <<>>
  ELSE IF Head(s) = ch THEN RemoveChar(Tail(s), ch)
  ELSE <<Head(s)>> \o RemoveChar(Tail(s), ch)

\* Python's `sub in s` on strings.
Contains(s, sub) ==
  \E i \in 1..(Len(s) - Len(sub) + 1) : SubSeq(s, i, i + Len(sub) - 1) = sub

\* One column label through clean_and_standardize_columns.
CleanName(raw) ==
  LET stripped == Strip(raw, Whitespace)
      lowered  == [i \in DOMAIN stripped |-> LowerChar(stripped[i])]
  IN  Strip(ReplaceRuns(lowered, FALSE), {"_"})

\* ------------------------------------------------------------------ numbers
\* A cell: t = "num" (the rational n/d, d > 0, in lowest terms), "nan"
\* (missing), "inf" (n = 1 or -1) or "str" (the text s).
Num(n, d) == [t |-> "num", n |-> n, d |-> d, s |-> <<>>]
NaN       == [t |-> "nan", n |-> 0, d |-> 1, s |-> <<>>]
Inf(sgn)  == [t |-> "inf", n |-> sgn, d |-> 1, s |-> <<>>]
Str(s)    == [t |-> "str", n |-> 0, d |-> 1, s |-> s]
Zero      == Num(0, 1)

Abs(x) == IF x < 0 THEN -x ELSE x

RECURSIVE GCD(_, _)
GCD(a, b) == IF b = 0 THEN a ELSE GCD(b, a % b)

\* The rational n/d (d # 0) in lowest terms with a positive denominator.
Rat(n, d) ==
  LET g == GCD(Abs(n), Abs(d))
      sg == IF d < 0 THEN -1 ELSE 1
  IN  Num((sg * n) \div g, (sg * d) \div g)

IsNum(c) == c.t = "num"
IsNaN(c) == c.t = "nan"

Sign(x) == IF x > 0 THEN 1 ELSE IF x < 0 THEN -1 ELSE 0

\* Float arithmetic of a pandas Series, cell by cell.
Add(a, b) ==
  IF IsNaN(a) \/ IsNaN(b) THEN NaN
  ELSE IF a.t = "inf" /\ b.t = "inf" THEN (IF a.n = b.n THEN a ELSE NaN)
  ELSE IF a.t = "inf" THEN a
  ELSE IF b.t = "inf" THEN b
  ELSE Rat(a.n * b.d + b.n * a.d, a.d * b.d)

Mul(a, b) ==
  IF IsNaN(a) \/ IsNaN(b) THEN NaN
  ELSE IF a.t = "inf" \/ b.t = "inf"
       THEN (IF Sign(a.n) * Sign(b.n) = 0 THEN NaN ELSE Inf(Sign(a.n) * Sign(b.n)))
  ELSE Rat(a.n * b.n, a.d * b.d)

Div(a, b) ==
  IF IsNaN(a) \/ IsNaN(b) THEN NaN
  ELSE IF a.t = "inf" THEN (IF b.t = "inf" THEN NaN
                            ELSE Inf(a.n * (IF b.n < 0 THEN -1 ELSE 1)))
  ELSE IF b.t = "inf" THEN Zero
  ELSE IF b.n = 0 THEN (IF a.n = 0 THEN NaN ELSE Inf(Sign(a.n)))
  ELSE Rat(a.n * b.d, a.d * b.n)

DigitVal(c) == (CHOOSE i \in DOMAIN DigitChars : DigitChars[i] = c) - 1

RECURSIVE DigitsValue(_)
DigitsValue(s) ==
  IF s = <<>> THEN 0 ELSE 10 * DigitsValue(SubSeq(s, 1, Len(s) - 1)) + DigitVal(s[Len(s)])

RECURSIVE Pow10(_)
Pow10(k) == IF k = 0 THEN 1 ELSE 10 * Pow10(k - 1)

\* pd.to_numeric(text, errors='coerce') on one text: an optionally signed
\* decimal numeral parses to its value, anything else (the empty text,
\* letters, the text 'nan' of a missing cell) to NaN.
ToNumeric(s) ==
  LET signed == s # <<>> /\ Head(s) \in {"-", "+"}
      sgn    == IF signed /\ Head(s) = "-" THEN -1 ELSE 1
      body   == IF signed THEN Tail(s) ELSE s
      dots   == {i \in DOMAIN body : body[i] = "."}
      digits == RemoveChar(body, ".")
  IN  IF /\ Cardinality(dots) <= 1
         /\ digits # <<>>
         /\ \A i \in DOMAIN digits : digits[i] \in Range(DigitChars)
      THEN LET fracLen == IF dots = {} THEN 0
                          ELSE Len(body) - (CHOOSE i \in dots : TRUE)
           IN  Rat(sgn * DigitsValue(digits), Pow10(fracLen))
      ELSE NaN

\* Series.astype(str) on a cell of an object column: a text stays, a missing
\* cell becomes the text 'nan'.
AsTypeStr(c) == IF c.t = "str" THEN c.s ELSE Word.nan

\* Series.fillna(v) on one cell.
FillNa(c, v) == IF IsNaN(c) THEN v ELSE c

\* Series.replace([np.inf, -np.inf], np.nan) on one cell.
ReplaceInf(c) == IF c.t = "inf" THEN NaN ELSE c

\* --------------------------------------------------------------- DataFrame
Frame(cols, rows) == [cols |-> cols, rows |-> rows]

\* `name in df.columns`
HasCol(df, name) == \E i \in DOMAIN df.cols : df.cols[i] = name

ColCount(df, name) == Cardinality({i \in DOMAIN df.cols : df.cols[i] = name})

\* The position of a label that occurs exactly once.
ColIdx(df, name) == CHOOSE i \in DOMAIN df.cols : df.cols[i] = name

\* df[name] as a Series, for a label that occurs exactly once.
Column(df, name) == [r \in DOMAIN df.rows |-> df.rows[r][ColIdx(df, name)]]

\* df.rename(columns={old: new}): every column labelled old is relabelled.
Rename(df, old, new) ==
  [df EXCEPT !.cols = [i \in DOMAIN df.cols |-> IF df.cols[i] = old THEN new ELSE df.cols[i]]]

\* df[name] = series: replaces the column when the label exists, else appends it.
SetCol(df, name, series) ==
  IF HasCol(df, name)
  THEN [df EXCEPT !.rows = [r \in DOMAIN df.rows |->
          [i \in DOMAIN df.cols |-> IF df.cols[i] = name THEN series[r] ELSE df.rows[r][i]]]]
  ELSE Frame(Append(df.cols, name),
             [r \in DOMAIN df.rows |-> Append(df.rows[r], series[r])])

\* The subsequence of s at the positions satisfying keep.
RECURSIVE SelectIdx(_, _, _)
SelectIdx(s, keep, i) ==
  IF i > Len(s) THEN <<>>
  ELSE (IF keep[i] THEN <<s[i]>> ELSE <<>>) \o SelectIdx(s, keep, i + 1)

\* df.drop(columns=[name])
DropCol(df, name) ==
  LET keep == [i \in DOMAIN df.cols |-> df.cols[i] # name]
  IN  Frame(SelectIdx(df.cols, keep, 1),
            [r \in DOMAIN df.rows |-> SelectIdx(df.rows[r], keep, 1)])

\* Series.unique(): the distinct values in order of first appearance.
Unique(series) ==
  SelectIdx(series, [i \in DOMAIN series |-> \A j \in 1..(i - 1) : series[j] # series[i]], 1)

\* df.drop_duplicates(subset=[name]): the first row of each key value is kept.
DropDuplicates(df, name) ==
  LET key == Column(df, name)
  IN  [df EXCEPT !.rows =
         SelectIdx(df.rows, [r \in DOMAIN df.rows |-> \A q \in 1..(r - 1) : key[q] # key[r]], 1)]

\* df[labels]: the columns of the listed labels, in the listed order.
RECURSIVE PositionsOf(_, _)
PositionsOf(df, labels) ==
  IF labels = <<>> THEN <<>>
  ELSE SelectIdx([i \in DOMAIN df.cols |-> i],
                 [i \in DOMAIN df.cols |-> df.cols[i] = Head(labels)], 1)
       \o PositionsOf(df, Tail(labels))

SelectCols(df, labels) ==
  LET pos == PositionsOf(df, labels)
  IN  Frame([k \in DOMAIN pos |-> df.cols[pos[k]]],
            [r \in DOMAIN df.rows |-> [k \in DOMAIN pos |-> df.rows[r][pos[k]]]])

RECURSIVE Concat(_)
Concat(ss) == IF ss = <<>> THEN <<>> ELSE Head(ss) \o Concat(Tail(ss))

\* pd.merge(left, right, left_on=lkey, right_on=rkey, how='left',
\* suffixes=(sl, sr)) - `on=key` is lkey = rkey.  A key label that is missing
\* or not unique on either side raises; the result is then "error".  Every
\* left row is kept, in order, once per matching right row (once with missing
\* right cells when none matches).  With on=key the right key column is not
\* repeated; a label on both sides (other than the on= key) gets the suffixes.
MergeFails(left, right, lkey, rkey) ==
  ColCount(left, lkey) # 1 \/ ColCount(right, rkey) # 1

Merge(left, right, lkey, rkey, sl, sr) ==
  LET sameKey == lkey = rkey
      li == ColIdx(left, lkey)
      ri == ColIdx(right, rkey)
      keepR == [i \in DOMAIN right.cols |-> ~(sameKey /\ i = ri)]
      overlap(name) == /\ HasCol(left, name) /\ HasCol(right, name)
                       /\ ~(sameKey /\ name = lkey)
      lcols == [i \in DOMAIN left.cols |->
                  IF overlap(left.cols[i]) THEN left.cols[i] \o sl ELSE left.cols[i]]
      rcols == SelectIdx([i \in DOMAIN right.cols |->
                  IF overlap(right.cols[i]) THEN right.cols[i] \o sr ELSE right.cols[i]],
                  keepR, 1)
      missing == SelectIdx([i \in DOMAIN right.cols |-> NaN], keepR, 1)
      matches(l) == SelectIdx(right.rows,
                      [q \in DOMAIN right.rows |-> right.rows[q][ri] = left.rows[l][li]], 1)
      joined(l) == IF matches(l) = <<>> THEN <<left.rows[l] \o missing>>
                   ELSE [k \in DOMAIN matches(l) |->
                           left.rows[l] \o SelectIdx(matches(l)[k], keepR, 1)]
  IN  Frame(lcols \o rcols, Concat([l \in DOMAIN left.rows |-> joined(l)]))

\* Series.mean(): the mean of the present (non-NaN) cells, NaN when none.
RECURSIVE SumSeq(_)
SumSeq(series) == IF series = <<>> THEN Zero ELSE Add(Head(series), SumSeq(Tail(series)))

Mean(series) ==
  LET present == SelectIdx(series, [i \in DOMAIN series |-> ~IsNaN(series[i])], 1)
  IN  IF present = <<>> THEN NaN ELSE Div(SumSeq(present), Num(Len(present), 1))

\* df.fillna(0) on the whole frame.
FillNaFrame(df) ==
  [df EXCEPT !.rows = [r \in DOMAIN df.rows |->
      [i \in DOMAIN df.cols |-> FillNa(df.rows[r][i], Zero)]]]

\* ------------------------------------------------- the pipeline's steps
\* No DataFrame: a file that is not there, a local not yet assigned, the
\* value of `data` before load_and_merge_data returns, an empty cache.
None == [none |-> TRUE]

\* clean_and_standardize_columns: every label goes through CleanName.
clean_and_standardize_columns(df) ==
  [df EXCEPT !.cols = [i \in DOMAIN df.cols |-> CleanName(df.cols[i])]]

possible_id_names == <<N_order_id, N_orderid, N_order_id_>>

\* standardize_order_id(df): the first candidate label present is renamed to
\* 'id'; the target itself is looked at only when no candidate is present.
standardize_order_id(df) ==
  LET present == {k \in DOMAIN possible_id_names : HasCol(df, possible_id_names[k])}
      first   == CHOOSE k \in present : \A j \in present : k <= j
  IN  IF present # {}
      THEN [ok |-> TRUE, df |-> Rename(df, possible_id_names[first], N_id)]
      ELSE IF HasCol(df, N_id) THEN [ok |-> TRUE, df |-> df]
      ELSE [ok |-> FALSE, df |-> df]

\* Lines 70-76: the fuel/labor/maintenance cost column gets its final label.
possible_cost_cols(cost) ==
  SelectIdx(cost.cols,
            [i \in DOMAIN cost.cols |->
               Contains(cost.cols[i], Word.labor) \/ Contains(cost.cols[i], Word.fuel)], 1)

FinalizeCostColumn(cost) ==
  IF HasCol(cost, N_flmc) THEN Rename(cost, N_flmc, N_flmc_inr)
  ELSE IF ~HasCol(cost, N_flmc_inr) /\ possible_cost_cols(cost) # <<>>
       THEN Rename(cost, possible_cost_cols(cost)[1], N_flmc_inr)
  ELSE cost

\* Lines 78-80.
StandardizeRouteId(routes) ==
  IF HasCol(routes, N_route) THEN Rename(routes, N_route, N_route_id) ELSE routes

\* Lines 84-94: the order value column is the first label that contains both
\* 'order_value' and 'inr'; without one every order value is 0.
order_value_col(orders) ==
  SelectIdx(orders.cols,
            [i \in DOMAIN orders.cols |->
               Contains(orders.cols[i], Word.order_value) /\ Contains(orders.cols[i], Word.inr)], 1)

\* One cell of the order value column: astype(str), '$' and ',' removed.
CleanValue(c) == RemoveChar(RemoveChar(AsTypeStr(c), "$"), ",")

ConvertFails(orders) ==
  order_value_col(orders) # <<>> /\ ColCount(orders, order_value_col(orders)[1]) # 1

ConvertOrderValue(orders) ==
  IF order_value_col(orders) # <<>>
  THEN LET raw     == Column(orders, order_value_col(orders)[1])
           cleaned == [r \in DOMAIN raw |-> CleanValue(raw[r])]
           withCleaned == SetCol(orders, N_order_value_cleaned,
                                 [r \in DOMAIN raw |-> Str(cleaned[r])])
       IN  SetCol(withCleaned, N_order_value_usd,
                  [r \in DOMAIN raw |-> FillNa(ToNumeric(cleaned[r]), Zero)])
  ELSE SetCol(orders, N_order_value_usd, [r \in DOMAIN orders.rows |-> Zero])

\* Link 1 (line 99).
Link1Fails(orders, performance) == MergeFails(orders, performance, N_id, N_id)
Link1(orders, performance) == Merge(orders, performance, N_id, N_id, Suffix.x, Suffix.y)

\* Link 2 (lines 102-112).  np.random.choice(keys, size=n) is any sequence of
\* n of the keys; it raises on no keys unless n = 0.
Choices(keys, n) == [1..n -> Range(keys)]

\* A variant that synthesises a route for every row, whatever the columns.
NeedsRoute_always(merged) == TRUE

NeedsRoute(merged) == ~HasCol(merged, N_route_id)

RouteKeysFail(merged, routes) ==
  NeedsRoute(merged) /\ ColCount(routes, N_route_id) # 1

route_keys(routes) == Unique(Column(routes, N_route_id))

RouteChoices(merged, routes) ==
  IF NeedsRoute(merged) THEN Choices(route_keys(routes), Len(merged.rows))
  ELSE {<<>>}

WithRoute(merged, choice) ==
  IF NeedsRoute(merged) THEN SetCol(merged, N_route_id, choice) ELSE merged

RoutesForMerge(routes) == IF HasCol(routes, N_id) THEN DropCol(routes, N_id) ELSE routes

Link2Fails(merged, routes) ==
  \/ RouteKeysFail(merged, routes)
  \/ RouteChoices(merged, routes) = {}
  \/ ColCount(RoutesForMerge(routes), N_route_id) # 1
  \/ (~NeedsRoute(merged) /\ ColCount(merged, N_route_id) # 1)

Link2(merged, routes, choice) ==
  Rename(Merge(WithRoute(merged, choice), RoutesForMerge(routes),
               N_route_id, N_route_id, Suffix.order, Suffix.route),
         N_distance_km_route, N_distance_km)

\* Link 3 (lines 115-119).
vehicle_types(fleet) == Unique(Column(fleet, N_vehicle_type))

VehicleChoices(merged, fleet) == Choices(vehicle_types(fleet), Len(merged.rows))

Link3Fails(merged, fleet) ==
  \/ ColCount(fleet, N_vehicle_type) # 1
  \/ VehicleChoices(merged, fleet) = {}
  \/ ColCount(merged, N_assigned_vehicle_type) > 1

Link3(merged, fleet, choice) ==
  Merge(SetCol(merged, N_assigned_vehicle_type, choice), fleet,
        N_assigned_vehicle_type, N_vehicle_type, Suffix.merge, Suffix.fleet)

\* Link 4 (lines 122-126).
cost_cols_to_merge(cost) ==
  <<N_id>> \o SelectIdx(cost.cols, [i \in DOMAIN cost.cols |-> cost.cols[i] # N_id], 1)

Link4Fails(final, cost) == MergeFails(final, cost, N_id, N_id)

\* A variant that joins the cost rows as they are, duplicates included.
Link4_no_dedup(final, cost) ==
  Merge(final, SelectCols(cost, cost_cols_to_merge(cost)), N_id, N_id, Suffix.final, Suffix.cost)

Link4(final, cost) ==
  Merge(final, DropDuplicates(SelectCols(cost, cost_cols_to_merge(cost)), N_id),
        N_id, N_id, Suffix.final, Suffix.cost)

\* Derived metrics (lines 131-143).
MetricsFail(final) ==
  \/ ColCount(final, N_distance_km) # 1
  \/ ColCount(final, N_co2) # 1
  \/ ColCount(final, N_order_value_usd) # 1
  \/ ColCount(final, N_total_co2_kg) > 1
  \/ ColCount(final, N_ccpv) > 1

ImputeMean(df, name) ==
  LET series == Column(df, name)
      mean   == Mean(series)
  IN  SetCol(df, name, [r \in DOMAIN series |-> FillNa(series[r], mean)])

TotalCo2(df) ==
  SetCol(df, N_total_co2_kg,
         [r \in DOMAIN df.rows |-> Mul(Column(df, N_distance_km)[r], Column(df, N_co2)[r])])

\* A variant without the replace of +/-inf: a division by zero stays infinite.
CarbonCostPerValue_keeps_inf(df) ==
  SetCol(df, N_ccpv,
         [r \in DOMAIN df.rows |->
            FillNa(Div(Column(df, N_total_co2_kg)[r], Column(df, N_order_value_usd)[r]), Zero)])

CarbonCostPerValue(df) ==
  SetCol(df, N_ccpv,
         [r \in DOMAIN df.rows |->
            FillNa(ReplaceInf(Div(Column(df, N_total_co2_kg)[r],
                                  Column(df, N_order_value_usd)[r])), Zero)])

DerivedMetrics(final) ==
  CarbonCostPerValue(TotalCo2(ImputeMean(ImputeMean(final, N_distance_km), N_co2)))

\* A variant that returns the frame without the final fillna.
ReturnValue_unfilled(final) == final

\* Line 145: the value load_and_merge_data returns.
ReturnValue(final) == FillNaFrame(final)

\* ------------------------------------------------------- the dashboard
\* Lines 161-192: the entries of rename_map whose key is a column of data.
rename_map(df) ==
  <<  <<N_id, Display.ID>>, <<N_route_id, Display.Route_ID>>, <<N_vehicle_type, Display.Vehicle_Type>>,
      <<N_priority, Display.Priority_Levels>>, <<N_delivery_cost_inr, Display.Delivery_Cost_INR>>,
      <<N_total_co2_kg, Display.Total_CO2_kg>>, <<N_ccpv, Display.CCPV>>,
      <<N_distance_km, Display.Distance_km>>, <<N_age_years, Display.Vehicle_Age>>,
      <<N_flmc_inr, Display.FLMC_INR>> >>
  \o (IF HasCol(df, N_origin) THEN << <<N_origin, Display.Origins>> >>
      ELSE IF HasCol(df, N_origins) THEN << <<N_origins, Display.Origins>> >> ELSE <<>>)
  \o (IF HasCol(df, N_order_dat) THEN << <<N_order_dat, Display.Order_Date>> >>
      ELSE IF HasCol(df, N_order_date) THEN << <<N_order_date, Display.Order_Date>> >> ELSE <<>>)

ApplyRenameMap(df) ==
  LET map == rename_map(df)
      to(name) == IF \E k \in DOMAIN map : map[k][1] = name
                  THEN map[CHOOSE k \in DOMAIN map : map[k][1] = name][2]
                  ELSE name
  IN  [df EXCEPT !.cols = [i \in DOMAIN df.cols |-> to(df.cols[i])]]

\* DataFrame.empty
IsEmpty(df) == df.cols = <<>> \/ df.rows = <<>>

\* The options of a selectbox over a column and the rows a selection keeps.
FilterOptions(df, name) ==
  IF ColCount(df, name) = 1 THEN {Str(Text.All)} \cup Range(Column(df, name)) ELSE {Str(Text.All)}

FilterBy(df, name, selected) ==
  IF ColCount(df, name) = 1 /\ selected # Str(Text.All)
  THEN [df EXCEPT !.rows =
          SelectIdx(df.rows, [r \in DOMAIN df.rows |-> Column(df, name)[r] = selected], 1)]
  ELSE df

\* The columns the KPI block indexes (lines 227-234) and the charts and the
\* recommendations group by (lines 243-310); a missing one raises KeyError.
KpiColumns == {Display.Total_CO2_kg, Display.CCPV, Display.FLMC_INR, Display.ID, Display.Route_ID}
ChartColumns == {Display.Route_ID, Display.Total_CO2_kg, Display.Vehicle_Type, Display.CCPV, Display.Vehicle_Age}

KpisFail(df) == \E c \in KpiColumns : ColCount(df, c) # 1
ChartsFail(df) == \E c \in ChartColumns : ColCount(df, c) # 1

Kpis(df) ==
  [ total_co2_kg    |-> SumSeq(Column(df, Display.Total_CO2_kg)),
    avg_ccpv        |-> Mean(SelectIdx(Column(df, Display.CCPV),
                              [r \in DOMAIN df.rows |->
                                 Column(df, Display.CCPV)[r].t = "num" /\ Column(df, Display.CCPV)[r].n > 0], 1)),
    total_fuel_cost |-> SumSeq(Column(df, Display.FLMC_INR)),
    total_orders    |-> Len(Unique(Column(df, Display.ID))),
    total_routes    |-> Len(Unique(Column(df, Display.Route_ID))) ]

NoKpis == [none |-> TRUE]

\* ------------------------------------------------------------ the state
VARIABLES
  files,            \* the five CSV files: a DataFrame each, or None when absent
  orders_df, routes_df, fleet_df, performance_df, cost_df,
  df_merged, df_final,   \* the locals of load_and_merge_data
  pc,               \* the statement the script is at
  raised,           \* the exception on its way to the except clauses
  shown,            \* the st.error message on the page ("none" when there is none)
  cache,            \* the st.cache_data entry of load_and_merge_data, or None
  cache_files,      \* history: the files the cache entry was computed from
  data,             \* the script's `data`
  filtered_data, kpis,
  ran               \* history: the joins and dashboard steps of this execution

vars == <<files, orders_df, routes_df, fleet_df, performance_df, cost_df,
          df_merged, df_final, pc, raised, shown, cache, cache_files, data,
          filtered_data, kpis, ran>>

locals == <<orders_df, routes_df, fleet_df, performance_df, cost_df, df_merged, df_final>>
frames == <<orders_df, routes_df, fleet_df, performance_df, cost_df>>
page   == <<data, filtered_data, kpis>>

FileNames == {"orders", "routes", "fleet", "performance", "cost"}

Raise(kind) == pc' = "fatal" /\ raised' = kind

\* Line 156 through the st.cache_data wrapper (line 42): a stored entry is
\* returned without running the body; the key is the function and its (no)
\* arguments, the files are not part of it.
Invoke ==
  /\ pc = "start"
  /\ IF cache # None
     THEN /\ data' = cache
          /\ pc' = "returned"
     ELSE /\ pc' = "read"
          /\ data' = data
  /\ UNCHANGED <<files, locals, raised, shown, cache, cache_files, filtered_data, kpis, ran>>

\* Lines 51-55: read_csv in the code's order; the first absent file raises.
ReadFiles ==
  /\ pc = "read"
  /\ LET okO == files.orders # None
         okR == okO /\ files.routes # None
         okF == okR /\ files.fleet # None
         okP == okF /\ files.performance # None
         okC == okP /\ files.cost # None
     IN  /\ orders_df' = (IF okO THEN files.orders ELSE None)
         /\ routes_df' = (IF okR THEN files.routes ELSE None)
         /\ fleet_df' = (IF okF THEN files.fleet ELSE None)
         /\ performance_df' = (IF okP THEN files.performance ELSE None)
         /\ cost_df' = (IF okC THEN files.cost ELSE None)
         /\ IF okC THEN pc' = "clean" /\ raised' = raised
            ELSE Raise("FileNotFoundError")
  /\ UNCHANGED <<files, df_merged, df_final, shown, cache, cache_files, page, ran>>

\* Lines 58-62.
CleanColumns ==
  /\ pc = "clean"
  /\ orders_df' = clean_and_standardize_columns(orders_df)
  /\ routes_df' = clean_and_standardize_columns(routes_df)
  /\ fleet_df' = clean_and_standardize_columns(fleet_df)
  /\ performance_df' = clean_and_standardize_columns(performance_df)
  /\ cost_df' = clean_and_standardize_columns(cost_df)
  /\ pc' = "ids"
  /\ UNCHANGED <<files, df_merged, df_final, raised, shown, cache, cache_files, page, ran>>

\* Lines 65-68: orders, cost, performance in turn; the renames are in place,
\* and the first failure raises KeyError before the later frames are touched.
StandardizeIds ==
  /\ pc = "ids"
  /\ LET o == standardize_order_id(orders_df)
         c == standardize_order_id(cost_df)
         p == standardize_order_id(performance_df)
     IN  /\ orders_df' = o.df
         /\ cost_df' = (IF o.ok THEN c.df ELSE cost_df)
         /\ performance_df' = (IF o.ok /\ c.ok THEN p.df ELSE performance_df)
         /\ IF o.ok /\ c.ok /\ p.ok THEN pc' = "costcol" /\ raised' = raised
            ELSE Raise("KeyError")
  /\ UNCHANGED <<files, routes_df, fleet_df, df_merged, df_final, shown, cache,
                 cache_files, page, ran>>

\* Lines 71-80.
ResolveOptionalColumns ==
  /\ pc = "costcol"
  /\ cost_df' = FinalizeCostColumn(cost_df)
  /\ routes_df' = StandardizeRouteId(routes_df)
  /\ pc' = "value"
  /\ UNCHANGED <<files, orders_df, fleet_df, performance_df, df_merged, df_final,
                 raised, shown, cache, cache_files, page, ran>>

\* Lines 84-94.
ConvertValue ==
  /\ pc = "value"
  /\ IF ConvertFails(orders_df)
     THEN Raise("Exception") /\ orders_df' = orders_df
     ELSE /\ orders_df' = ConvertOrderValue(orders_df)
          /\ pc' = "link1" /\ raised' = raised
  /\ UNCHANGED <<files, routes_df, fleet_df, performance_df, cost_df, df_merged,
                 df_final, shown, cache, cache_files, page, ran>>

\* Line 99.
DoLink1 ==
  /\ pc = "link1"
  /\ IF Link1Fails(orders_df, performance_df)
     THEN Raise("Exception") /\ UNCHANGED <<df_merged, ran>>
     ELSE /\ df_merged' = Link1(orders_df, performance_df)
          /\ ran' = ran \cup {"link1"}
          /\ pc' = "link2" /\ raised' = raised
  /\ UNCHANGED <<files, frames, df_final, shown, cache, cache_files, page>>

\* Lines 102-112.
DoLink2 ==
  /\ pc = "link2"
  /\ IF Link2Fails(df_merged, routes_df)
     THEN Raise("Exception") /\ UNCHANGED <<df_merged, routes_df, ran>>
     ELSE /\ \E choice \in RouteChoices(df_merged, routes_df) :
               df_merged' = Link2(df_merged, routes_df, choice)
          /\ routes_df' = RoutesForMerge(routes_df)
          /\ ran' = ran \cup {"link2"}
          /\ pc' = "link3" /\ raised' = raised
  /\ UNCHANGED <<files, orders_df, fleet_df, performance_df, cost_df, df_final,
                 shown, cache, cache_files, page>>

\* Lines 115-119.
DoLink3 ==
  /\ pc = "link3"
  /\ IF Link3Fails(df_merged, fleet_df)
     THEN Raise("Exception") /\ UNCHANGED <<df_merged, df_final, ran>>
     ELSE /\ \E choice \in VehicleChoices(df_merged, fleet_df) :
               /\ df_merged' = SetCol(df_merged, N_assigned_vehicle_type, choice)
               /\ df_final' = Link3(df_merged, fleet_df, choice)
          /\ ran' = ran \cup {"link3"}
          /\ pc' = "link4" /\ raised' = raised
  /\ UNCHANGED <<files, frames, shown, cache, cache_files, page>>

\* Lines 122-126.
DoLink4 ==
  /\ pc = "link4"
  /\ IF Link4Fails(df_final, cost_df)
     THEN Raise("Exception") /\ UNCHANGED <<df_final, ran>>
     ELSE /\ df_final' = Link4(df_final, cost_df)
          /\ ran' = ran \cup {"link4"}
          /\ pc' = "metrics" /\ raised' = raised
  /\ UNCHANGED <<files, frames, df_merged, shown, cache, cache_files, page>>

\* Lines 131-143.
DeriveMetrics ==
  /\ pc = "metrics"
  /\ IF MetricsFail(df_final)
     THEN Raise("Exception") /\ df_final' = df_final
     ELSE /\ df_final' = DerivedMetrics(df_final)
          /\ pc' = "return" /\ raised' = raised
  /\ UNCHANGED <<files, frames, df_merged, shown, cache, cache_files, page, ran>>

\* Line 145, the wrapper storing the value, and the assignment of line 156.
Return ==
  /\ pc = "return"
  /\ data' = ReturnValue(df_final)
  /\ cache' = ReturnValue(df_final)
  /\ cache_files' = files
  /\ pc' = "returned"
  /\ UNCHANGED <<files, locals, raised, shown, filtered_data, kpis, ran>>

\* A variant whose except clauses report the error and forget st.stop(): the
\* function then returns (None) and the script goes on.
Fatal_without_stop ==
  /\ pc = "fatal"
  /\ shown' = (IF raised = "FileNotFoundError" THEN "files not found" ELSE "fatal error")
  /\ pc' = "returned"
  /\ UNCHANGED <<files, locals, raised, cache, cache_files, page, ran>>

\* Lines 147-153: either except clause reports with st.error and st.stop()
\* ends the execution of the script; nothing is returned or stored.
Fatal ==
  /\ pc = "fatal"
  /\ shown' = (IF raised = "FileNotFoundError" THEN "files not found" ELSE "fatal error")
  /\ pc' = "halted"
  /\ UNCHANGED <<files, locals, raised, cache, cache_files, page, ran>>

\* Lines 161-192; `data.columns` on a None raises AttributeError.
RenameForDisplay ==
  /\ pc = "returned"
  /\ IF data = None
     THEN pc' = "crashed" /\ UNCHANGED <<data, ran>>
     ELSE /\ data' = ApplyRenameMap(data)
          /\ ran' = ran \cup {"rename"}
          /\ pc' = "filters"
  /\ UNCHANGED <<files, locals, raised, shown, cache, cache_files, filtered_data, kpis>>

\* Lines 200-221: nothing of the dashboard body runs on an empty frame; else
\* the two selectboxes narrow a copy of data.
Filters ==
  /\ pc = "filters"
  /\ IF IsEmpty(data)
     THEN pc' = "done" /\ UNCHANGED <<filtered_data, ran>>
     ELSE /\ \E vehicle \in FilterOptions(data, Display.Vehicle_Type) :
               LET byVehicle == FilterBy(data, Display.Vehicle_Type, vehicle)
               IN  \E priority \in FilterOptions(byVehicle, Display.Priority_Levels) :
                     filtered_data' = FilterBy(byVehicle, Display.Priority_Levels, priority)
          /\ ran' = ran \cup {"filters"}
          /\ pc' = "kpis"
  /\ UNCHANGED <<files, locals, raised, shown, cache, cache_files, data, kpis>>

\* Lines 224-235; an uncaught KeyError ends the script with a traceback.
ShowKpis ==
  /\ pc = "kpis"
  /\ IF KpisFail(filtered_data)
     THEN pc' = "crashed" /\ UNCHANGED <<kpis, ran>>
     ELSE /\ kpis' = Kpis(filtered_data)
          /\ ran' = ran \cup {"kpis"}
          /\ pc' = "charts"
  /\ UNCHANGED <<files, locals, raised, shown, cache, cache_files, data, filtered_data>>

\* Lines 239-323.
ShowCharts ==
  /\ pc = "charts"
  /\ IF ChartsFail(filtered_data) \/ ChartsFail(data)
     THEN pc' = "crashed" /\ ran' = ran
     ELSE pc' = "export" /\ ran' = ran \cup {"charts"}
  /\ UNCHANGED <<files, locals, raised, shown, cache, cache_files, page>>

\* Lines 325-338.
Export ==
  /\ pc = "export"
  /\ ran' = ran \cup {"export"}
  /\ pc' = "done"
  /\ UNCHANGED <<files, locals, raised, shown, cache, cache_files, page>>

Terminal == {"done", "halted", "crashed"}

\* A user interaction: Streamlit runs the script again from the top; the
\* cache survives, the page and the locals do not.
Rerun ==
  /\ pc \in Terminal
  /\ pc' = "start"
  /\ orders_df' = None /\ routes_df' = None /\ fleet_df' = None
  /\ performance_df' = None /\ cost_df' = None /\ df_merged' = None /\ df_final' = None
  /\ raised' = "none" /\ shown' = "none"
  /\ data' = None /\ filtered_data' = None /\ kpis' = NoKpis
  /\ ran' = {}
  /\ UNCHANGED <<files, cache, cache_files>>

\* ------------------------------------------------- the whole function
\* The frames as they stand before Link 1 (lines 51-94), or None when the
\* body raises on the way.
Prepared(f) ==
  IF \E n \in FileNames : f[n] = None THEN None
  ELSE LET o == standardize_order_id(clean_and_standardize_columns(f.orders))
           c == standardize_order_id(clean_and_standardize_columns(f.cost))
           p == standardize_order_id(clean_and_standardize_columns(f.performance))
       IN  IF ~(o.ok /\ c.ok /\ p.ok) \/ ConvertFails(o.df) THEN None
           ELSE [ orders      |-> ConvertOrderValue(o.df),
                  cost        |-> FinalizeCostColumn(c.df),
                  performance |-> p.df,
                  routes      |-> StandardizeRouteId(clean_and_standardize_columns(f.routes)),
                  fleet       |-> clean_and_standardize_columns(f.fleet) ]

\* Lines 121-145 on the frame Link 3 produced.
Finish(final, cost) ==
  IF Link4Fails(final, cost) \/ MetricsFail(Link4(final, cost)) THEN {}
  ELSE {ReturnValue(DerivedMetrics(Link4(final, cost)))}

\* Every relation a run of the body of load_and_merge_data on the files f
\* can return; empty when every run ends in an except clause.
Outputs(f) ==
  LET q == Prepared(f)
  IN  IF q = None THEN {}
      ELSE IF Link1Fails(q.orders, q.performance) THEN {}
      ELSE LET m1 == Link1(q.orders, q.performance)
           IN  IF Link2Fails(m1, q.routes) THEN {}
               ELSE UNION {
                 LET m2 == Link2(m1, q.routes, c2)
                 IN  IF Link3Fails(m2, q.fleet) THEN {}
                     ELSE UNION { Finish(Link3(m2, q.fleet, c3), q.cost) :
                                    c3 \in VehicleChoices(m2, q.fleet) } :
                 c2 \in RouteChoices(m1, q.routes) }

\* ------------------------------------------------------------ the inputs
\* Bounds of the input files: the rows of orders.csv, and the rows that
\* share one key value in the other files.
MaxOrders == 2
MaxDup == 2

IntCell(n) == Num(n, 1)

Files(o, r, f, p, c) ==
  [orders |-> o, routes |-> r, fleet |-> f, performance |-> p, cost |-> c]

\* The end-to-end scenario of the specification.
BaseOrders      == Frame(<<N_id, Header.order_value>>, <<<<IntCell(1), Str(Text.usd100)>>>>)
BasePerformance == Frame(<<N_id>>, <<<<IntCell(1)>>>>)
BaseRoutes      == Frame(<<N_route_id, N_distance_km>>, <<<<Str(Text.R1), IntCell(10)>>>>)
BaseFleet       == Frame(<<N_vehicle_type, N_co2, N_age_years>>,
                         <<<<Str(Text.Truck), IntCell(2), IntCell(3)>>>>)
BaseCost        == Frame(<<N_id, N_flmc>>, <<<<IntCell(1), IntCell(50)>>>>)
BaseFiles       == Files(BaseOrders, BaseRoutes, BaseFleet, BasePerformance, BaseCost)

\* The scenario with every subset of the files absent.
MissingInputs ==
  { [n \in FileNames |-> IF n \in gone THEN None ELSE BaseFiles[n]] :
      gone \in (SUBSET FileNames) \ {{}} }

\* The scenario's rows under other headers.
SchemaOrders ==
  { BaseOrders,
    Frame(<<Header.Order_ID, Header.Order_Value_INR>>, <<<<IntCell(1), Str(Text.usd100)>>>>),
    Frame(<<N_id, Header.Order_Value_INR, N_route_id>>, <<<<IntCell(1), Str(Text.usd100), Str(Text.R1)>>>>),
    Frame(<<Header.customer, Header.order_value>>, <<<<Str(Text.abc), Str(Text.usd100)>>>>),
    Frame(<<N_id, Header.Order_ID, Header.order_value>>, <<<<IntCell(1), IntCell(1), Str(Text.usd100)>>>>),
    Frame(<<N_id>>, <<<<IntCell(1)>>>>) }

SchemaPerformance ==
  { BasePerformance,
    Frame(<<N_orderid, Header.status>>, <<<<IntCell(1), Str(Text.abc)>>>>),
    Frame(<<Header.status>>, <<<<Str(Text.abc)>>>>) }

SchemaCost ==
  { BaseCost,
    Frame(<<Header.Order_ID, N_flmc_inr>>, <<<<IntCell(1), IntCell(50)>>>>),
    Frame(<<N_id, Header.Labor_Cost, Header.Fuel_Cost>>, <<<<IntCell(1), IntCell(20), IntCell(30)>>>>),
    Frame(<<N_id, Header.toll>>, <<<<IntCell(1), IntCell(5)>>>>),
    Frame(<<N_id, N_flmc, N_flmc_inr>>, <<<<IntCell(1), IntCell(50), IntCell(60)>>>>),
    Frame(<<Header.toll>>, <<<<IntCell(5)>>>>) }

SchemaRoutes ==
  { BaseRoutes,
    Frame(<<Header.Route, N_distance_km>>, <<<<Str(Text.R1), IntCell(10)>>>>),
    Frame(<<N_distance_km>>, <<<<IntCell(10)>>>>),
    Frame(<<N_route_id>>, <<<<Str(Text.R1)>>>>) }

SchemaFleet ==
  { BaseFleet,
    Frame(<<N_vehicle_type, N_co2>>, <<<<Str(Text.Truck), IntCell(2)>>>>),
    Frame(<<N_co2, N_age_years>>, <<<<IntCell(2), IntCell(3)>>>>) }

SchemaInputs ==
  { Files(o, r, f, p, c) : o \in SchemaOrders, r \in SchemaRoutes, f \in SchemaFleet,
                           p \in SchemaPerformance, c \in SchemaCost }

\* The texts of an order value cell; NaN is an empty cell.
ValueCells == {Str(Text.usd100), Str(Text.usd1250), Str(Text.zero), Str(Text.abc), NaN}

CoercionInputs ==
  { Files(Frame(<<N_id, Header.Order_Value_INR>>, <<<<IntCell(1), v>>>>),
          BaseRoutes, BaseFleet, BasePerformance, BaseCost) : v \in ValueCells }

\* Files whose keys repeat: up to MaxOrders orders with ids 1..n, with or
\* without a route_id column; up to MaxDup rows per key elsewhere.
JoinOrders ==
  { Frame(<<N_id, Header.Order_Value_INR>>, [i \in 1..n |-> <<IntCell(i), Str(Text.usd100)>>]) :
      n \in 0..MaxOrders }
  \cup
  { Frame(<<N_id, Header.Order_Value_INR, N_route_id>>,
          [i \in 1..n |-> <<IntCell(i), Str(Text.usd100), Str(Text.R1)>>]) : n \in 0..MaxOrders }

JoinPerformance ==
  { Frame(<<N_id>>, [i \in 1..m |-> <<IntCell(1)>>] \o <<<<IntCell(2)>>>>) : m \in 0..MaxDup }

JoinRoutes ==
  { Frame(<<N_route_id, N_distance_km>>, [i \in 1..k |-> <<Str(Text.R1), IntCell(10 * i)>>]) : k \in 1..MaxDup }
  \cup { Frame(<<N_route_id, N_distance_km>>, <<<<Str(Text.R1), IntCell(10)>>, <<Str(Text.R2), IntCell(30)>>>>) }

JoinFleet ==
  { Frame(<<N_vehicle_type, N_co2, N_age_years>>, 
          [i \in 1..k |-> <<Str(Text.Truck), IntCell(2 * i), IntCell(3)>>]) : k \in 1..MaxDup }

JoinCost ==
  { Frame(<<N_id, N_flmc>>, lead \o [i \in 1..m |-> <<IntCell(1), IntCell(30 + 20 * i)>>]) :
      m \in 0..MaxDup, lead \in {<<>>, <<<<IntCell(2), IntCell(70)>>>>} }

JoinInputs ==
  { Files(o, r, f, p, c) : o \in JoinOrders, r \in JoinRoutes, f \in JoinFleet,
                           p \in JoinPerformance, c \in JoinCost }

\* Files with present and absent numbers: every order has a value text and a
\* route_id that is in routes (R1) or not (R9); distances and emission
\* factors are present or missing.
MetricOrders ==
  UNION { { Frame(<<N_id, Header.Order_Value_INR, N_route_id>>,
                  [i \in 1..n |-> <<IntCell(i), v[i], Str(rt[i])>>]) :
              v \in [1..n -> {Str(Text.usd100), Str(Text.zero), NaN}], rt \in [1..n -> {Text.R1, Text.R9}] } :
          n \in 0..MaxOrders }

MetricRoutes ==
  { Frame(<<N_route_id, N_distance_km>>, <<<<Str(Text.R1), d>>>>) : d \in {IntCell(10), NaN} }

MetricRoutesDup ==
  { Frame(<<N_route_id, N_distance_km>>, <<<<Str(Text.R1), IntCell(10)>>, <<Str(Text.R1), d>>>>) :
      d \in {IntCell(30), NaN} }

MetricFleet ==
  { Frame(<<N_vehicle_type, N_co2, N_age_years>>, <<<<Str(Text.Truck), e, IntCell(3)>>>>) :
      e \in {IntCell(2), NaN} }

MetricFleetTwo ==
  { Frame(<<N_vehicle_type, N_co2, N_age_years>>,
          <<<<Str(Text.Truck), IntCell(2), IntCell(3)>>, <<Str(Text.Van), e, IntCell(7)>>>>) :
      e \in {IntCell(4), NaN} }

MetricInputs ==
  { Files(o, r, f, BasePerformance, BaseCost) :
      o \in MetricOrders, r \in MetricRoutes \cup MetricRoutesDup, f \in MetricFleet }
  \cup
  { Files(o, r, f, BasePerformance, BaseCost) :
      o \in MetricOrders, r \in MetricRoutes, f \in MetricFleetTwo }

\* Files with no rows at all in routes or fleet.
EmptyInputs ==
  { Files(o, r, f, BasePerformance, BaseCost) :
      o \in JoinOrders,
      r \in {BaseRoutes, Frame(<<N_route_id, N_distance_km>>, <<>>)},
      f \in {BaseFleet, Frame(<<N_vehicle_type, N_co2, N_age_years>>, <<>>)} }

Inputs == MissingInputs \cup SchemaInputs \cup CoercionInputs \cup JoinInputs
          \cup MetricInputs \cup EmptyInputs

\* The files of the executions that are interleaved with edits of the files.
CacheInputs ==
  CoercionInputs
  \cup { Files(BaseOrders, BaseRoutes, BaseFleet, BasePerformance, None),
         Files(Frame(<<Header.customer>>, <<<<Str(Text.abc)>>>>), BaseRoutes, BaseFleet,
               BasePerformance, BaseCost) }

\* ------------------------------------------------------ specifications
Start(input) ==
  /\ files \in input
  /\ orders_df = None /\ routes_df = None /\ fleet_df = None
  /\ performance_df = None /\ cost_df = None /\ df_merged = None /\ df_final = None
  /\ pc = "start" /\ raised = "none" /\ shown = "none"
  /\ cache = None /\ cache_files = None
  /\ data = None /\ filtered_data = None /\ kpis = NoKpis
  /\ ran = {}

Init == Start(Inputs)

Next ==
  \/ Invoke \/ ReadFiles \/ CleanColumns \/ StandardizeIds \/ ResolveOptionalColumns
  \/ ConvertValue \/ DoLink1 \/ DoLink2 \/ DoLink3 \/ DoLink4 \/ DeriveMetrics
  \/ Return \/ Fatal \/ RenameForDisplay \/ Filters \/ ShowKpis \/ ShowCharts \/ Export

Spec == Init /\ [][Next]_vars

\* The script run again and again while the files are edited between runs.
ChangeFiles ==
  /\ pc \in Terminal
  /\ files' \in CacheInputs \ {files}
  /\ UNCHANGED <<locals, pc, raised, shown, cache, cache_files, page, ran>>

InitCache == Start(CacheInputs)

NextCache == Next \/ Rerun \/ ChangeFiles

SpecCache == InitCache /\ [][NextCache]_vars

\* ------------------------------------------------------------ properties
\* At pc = "returned" `data` is the relation that load_and_merge_data
\* returned, and the locals still hold the frames it was made from.
Cell(df, r, name) == df.rows[r][ColIdx(df, name)]
Labels(df) == {CleanName(df.cols[i]) : i \in DOMAIN df.cols}
IdNames == {N_id, N_order_id, N_orderid, N_order_id_}
KeyFrames == {"orders", "cost", "performance"}
Resolvable(df) == Labels(df) \cap IdNames # {}
AllRead(f) == \A n \in FileNames : f[n] # None
MustAbort(f) == ~AllRead(f) \/ \E n \in KeyFrames : ~Resolvable(f[n])
UniqueCells(series) == \A i, j \in DOMAIN series : series[i] = series[j] => i = j
Computed == pc = "returned" /\ ran # {}

\* C1: when the order ids are unique, the returned relation has exactly one
\* row per order id of the orders source, so as many rows as orders, whatever
\* the other four relations hold.
C1_OneRowPerOrder ==
  (Computed /\ UniqueCells(Column(orders_df, N_id)))
    => /\ Len(data.rows) = Len(files.orders.rows)
       /\ \A o \in DOMAIN orders_df.rows :
            Cardinality({r \in DOMAIN data.rows :
                           Cell(data, r, N_id) = Cell(orders_df, o, N_id)}) = 1

\* C2: on the end-to-end scenario the function returns a single row with
\* distance_km 10, total_co2_kg 20, order_value_usd 100, carbon_cost_per_value
\* 0.2, route_id R1 and assigned_vehicle_type Truck.
C2_EndToEnd ==
  (files = BaseFiles /\ pc = "returned")
    => /\ Len(data.rows) = 1
       /\ Cell(data, 1, N_distance_km) = IntCell(10)
       /\ Cell(data, 1, N_total_co2_kg) = IntCell(20)
       /\ Cell(data, 1, N_order_value_usd) = IntCell(100)
       /\ Cell(data, 1, N_ccpv) = Num(1, 5)
       /\ Cell(data, 1, N_route_id) = Str(Text.R1)
       /\ Cell(data, 1, N_assigned_vehicle_type) = Str(Text.Truck)

\* C3: when a file cannot be read or the order id cannot be resolved on
\* orders, cost or performance, the execution never gets past the resolution
\* step: no join and no dashboard step runs, nothing is returned or stored,
\* and it ends halted with the error on the page.
C3_AllOrNothing ==
  MustAbort(files)
    => /\ pc \in {"start", "read", "clean", "ids", "fatal", "halted"}
       /\ pc \in Terminal => (pc = "halted" /\ shown # "none")
       /\ ran = {}
       /\ data = None /\ cache = None

\* A run on readable files whose cost relation has no order id ended halted
\* with the error on the page, after the files were read.
C3_Witness ==
  /\ AllRead(files) /\ Resolvable(files.orders) /\ ~Resolvable(files.cost)
  /\ pc = "halted" /\ shown = "fatal error" /\ orders_df # None

\* Inputs in which nothing but the route id or the cost column can be
\* missing: every file is readable and has a row, the order id resolves to one
\* column in orders, cost and performance, and routes and fleet have every
\* other column the run reads.
HasOneId(df) == Cardinality(Labels(df) \cap IdNames) = 1 /\ Len(df.cols) = Cardinality(Labels(df))
OnlyOptionalMissing(f) ==
  /\ AllRead(f)
  /\ \A n \in KeyFrames : HasOneId(f[n])
  /\ \A n \in FileNames : f[n].rows # <<>>
  /\ N_distance_km \in Labels(f.routes)
  /\ {N_vehicle_type, N_co2, N_age_years} \subseteq Labels(f.fleet)

\* C4: with all files readable and the order id resolvable everywhere, a
\* missing route-id column (in the merged relation or in routes) or a missing
\* fuel/labor/maintenance cost column never aborts or halts the run: it
\* reaches neither the fatal handler nor an uncaught exception.
C4_OptionalNeverFatal ==
  OnlyOptionalMissing(files) => pc \notin {"fatal", "halted", "crashed"}

\* The labels after a resolution that leaves a relation with the canonical
\* name alone and otherwise renames the highest-priority candidate present.
ResolvedLabels(cols, candidates, canonical) ==
  LET present == {k \in DOMAIN candidates : \E i \in DOMAIN cols : cols[i] = candidates[k]}
      best    == candidates[CHOOSE k \in present : \A j \in present : k <= j]
  IN  IF (\E i \in DOMAIN cols : cols[i] = canonical) \/ present = {} THEN cols
      ELSE [i \in DOMAIN cols |-> IF cols[i] = best THEN canonical ELSE cols[i]]

CleanLabels(df) == [i \in DOMAIN df.cols |-> CleanName(df.cols[i])]
LocalOf(n) == IF n = "orders" THEN orders_df ELSE IF n = "cost" THEN cost_df ELSE performance_df
CostCandidates(cols) ==
  <<N_flmc>> \o SelectIdx(cols, [i \in DOMAIN cols |->
                   Contains(cols[i], Word.labor) \/ Contains(cols[i], Word.fuel)], 1)

\* C5: resolution fails exactly when neither the canonical name nor a
\* candidate is a column; a relation that has the canonical name is left as it
\* is; otherwise only the highest-priority candidate present is renamed; after
\* a success exactly one column carries the canonical name.  (The order id is
\* resolved at pc = "costcol", the cost column at pc = "value".)
C5_KeyResolution ==
  /\ (pc = "fatal" /\ raised = "KeyError") => \E n \in KeyFrames : ~Resolvable(files[n])
  /\ pc = "costcol" =>
       \A n \in KeyFrames :
         /\ Resolvable(files[n])
         /\ LocalOf(n).cols = ResolvedLabels(CleanLabels(files[n]), possible_id_names, N_id)
         /\ ColCount(LocalOf(n), N_id) = 1
  /\ pc = "value" =>
       LET before == ResolvedLabels(CleanLabels(files.cost), possible_id_names, N_id)
       IN  /\ cost_df.cols = ResolvedLabels(before, CostCandidates(before), N_flmc_inr)
           /\ ColCount(cost_df, N_flmc_inr) <= 1

\* C6: in every returned row carbon_cost_per_value is 0 when order_value_usd
\* is 0, and otherwise total_co2_kg / order_value_usd of that row.
C6_CarbonCost ==
  Computed =>
    \A r \in DOMAIN data.rows :
      LET ov == Cell(data, r, N_order_value_usd)
          co == Cell(data, r, N_total_co2_kg)
          cc == Cell(data, r, N_ccpv)
      IN  /\ IsNum(ov) /\ IsNum(co) /\ IsNum(cc)
          /\ ov.n = 0 => cc.n = 0
          /\ ov.n # 0 => cc.n * co.d * ov.n = cc.d * co.n * ov.d

\* Two rows of one returned relation: an order of value 0 with emissions, and
\* a priced order with a non-zero carbon cost.
C6_Witness ==
  /\ Computed
  /\ \E r \in DOMAIN data.rows :
       Cell(data, r, N_order_value_usd) = Zero /\ Cell(data, r, N_total_co2_kg) # Zero
  /\ \E r \in DOMAIN data.rows :
       Cell(data, r, N_order_value_usd) # Zero /\ Cell(data, r, N_ccpv) # Zero

\* C7: no cell of a returned relation is missing, and total_co2_kg is a
\* finite number in every row.
C7_Dense ==
  Computed =>
    /\ \A r \in DOMAIN data.rows : \A i \in DOMAIN data.cols : ~IsNaN(data.rows[r][i])
    /\ \A r \in DOMAIN data.rows : IsNum(Cell(data, r, N_total_co2_kg))

\* A returned relation whose distance_km had no present value to average, so
\* that total_co2_kg was missing in every row before the final pass.
C7_Witness ==
  /\ Computed /\ data.rows # <<>>
  /\ \A r \in DOMAIN df_final.rows :
       IsNaN(Cell(df_final, r, N_distance_km)) /\ IsNaN(Cell(df_final, r, N_total_co2_kg))

\* The rows of the cost relation with a given order id, in source order.
CostRowsOf(idCell) ==
  {q \in DOMAIN cost_df.rows : Cell(cost_df, q, N_id) = idCell}
CostLabels == {cost_df.cols[i] : i \in DOMAIN cost_df.cols} \ {N_id}
\* The (label, value) pairs of the cost fields an order id is to get.
CostFieldsOf(idCell) ==
  LET rows  == CostRowsOf(idCell)
      first == CHOOSE q \in rows : \A k \in rows : q <= k
  IN  { <<cost_df.cols[i], IF rows = {} THEN NaN ELSE cost_df.rows[first][i]>> :
          i \in {j \in DOMAIN cost_df.cols : cost_df.cols[j] # N_id} }

Link4Step ==
  (pc = "link4" /\ pc' = "metrics")
    => /\ Len(df_final'.rows) = Len(df_final.rows)
       /\ \A r \in DOMAIN df_final.rows :
            /\ SubSeq(df_final'.rows[r], 1, Len(df_final.cols)) = df_final.rows[r]
            /\ { <<df_final'.cols[i], df_final'.rows[r][i]>> :
                   i \in (Len(df_final.cols) + 1)..Len(df_final'.cols) }
               = CostFieldsOf(Cell(df_final, r, N_id))

CostInOutput ==
  Computed
    => \A r \in DOMAIN data.rows : \A i \in DOMAIN data.cols :
         data.cols[i] \in CostLabels
           => \E f \in CostFieldsOf(Cell(data, r, N_id)) :
                f[1] = data.cols[i] /\ data.rows[r][i] = FillNa(f[2], Zero)

\* C8: Link 4 adds no rows and gives every row the cost fields of the first
\* cost row with its id (missing ones when there is none); in the returned
\* relation a missing cost field is the default 0.
C8_CostJoin == [][Link4Step]_vars /\ []CostInOutput

\* Link 4 has run on a cost relation with two different rows for order 1 and
\* none for order 2.
C8_Witness ==
  /\ pc = "metrics" /\ "link4" \in ran
  /\ \E q, k \in DOMAIN cost_df.rows :
       /\ q < k /\ Cell(cost_df, q, N_id) = Cell(cost_df, k, N_id)
       /\ cost_df.rows[q] # cost_df.rows[k]
       /\ \E r \in DOMAIN df_final.rows : Cell(df_final, r, N_id) = Cell(cost_df, q, N_id)
  /\ \E r \in DOMAIN df_final.rows : CostRowsOf(Cell(df_final, r, N_id)) = {}

\* C9: every invocation returns a relation that a fresh run on the current
\* files could produce, and a stored relation is served only while the files
\* are those it was computed from.
C9_CacheIsFresh ==
  pc = "returned"
    => /\ data \in Outputs(files)
       /\ ran = {} => cache_files = files

\* The merged orders/performance relation of Link 1.
Merged == Link1(orders_df, performance_df)
MergedHasRoute == HasCol(Merged, N_route_id)

\* C10: a synthesised route_id is one of the route ids of routes, the
\* assigned vehicle type is one of the vehicle types of fleet, and when the
\* merged orders/performance relation has a route_id column every row keeps
\* the route_id of its order.
C10_LinksInDomain ==
  Computed =>
    \A r \in DOMAIN data.rows :
      /\ Cell(data, r, N_assigned_vehicle_type) \in Range(Column(fleet_df, N_vehicle_type))
      /\ ~MergedHasRoute => Cell(data, r, N_route_id) \in Range(Column(routes_df, N_route_id))
      /\ MergedHasRoute =>
           \E m \in DOMAIN Merged.rows :
             /\ Cell(Merged, m, N_id) = Cell(data, r, N_id)
             /\ Cell(Merged, m, N_route_id) = Cell(data, r, N_route_id)

\* Two rows of a returned relation were given different synthesised routes.
C10_Witness ==
  /\ Computed /\ ~MergedHasRoute
  /\ \E r, q \in DOMAIN data.rows : Cell(data, r, N_route_id) # Cell(data, q, N_route_id)

====
